---- MODULE Spec2Model ----
(***************************************************************************)
(* A model of tdvms_py: the batch partitioner (tdvms.split_into_batches),  *)
(* the hybrid-station expansion and the station filters of tdvms.py, the   *)
(* constructor of DownloadConfig, the plan built by select_stations, the   *)
(* checkpoint file (check_cur_state / update_state), the request loop of   *)
(* download.py, and utils.check_imap_email with utils.wait.                *)
(***************************************************************************)
EXTENDS Integers, Sequences, FiniteSets, TLC

VARIABLES
    pc,                 \* position of the script (download.py __main__)
    config_file,        \* the config file given on the command line
    use_imap_email,     \* download.py:211-215
    networks_json,      \* ./networks.json: <<>> (no file) or <<network codes>>
    stations_json,      \* ./stations.json: <<>> (no file) or <<station list>>
    state_file,         \* <name>_state.yml: <<>> (no file) or <<[hash, requested]>>
    cache_hit,          \* this run read ./stations.json instead of fetching
    stations,           \* config.stations (download.py:157)
    station_groups,     \* the local batches of select_stations (download.py:158)
    batches,            \* config.batches (download.py:162-165)
    batch_data_formats, \* config.batch_data_formats (download.py:161-164)
    n_batches,          \* download.py:200
    requested,          \* download.py:195, 225
    prompted,           \* check_cur_state asked the reset question in this run
    ans,                \* what the user answered to it ("" when not asked)
    requested0,         \* the value check_cur_state returned in this run
    last_outcome,       \* outcome of the latest config.download call of this run
    last_batch,         \* batch index of the latest config.download call (-1: none)
    accepted,           \* batch indices the remote service accepted in this run
    attempts,           \* number of config.download calls of this run
    slept,              \* seconds slept since the latest config.download call
    runs,               \* number of runs started so far
    catalog,            \* the station list a function of tdvms.py is called on
    selection,          \* the selection a station list is filtered by
    kwargs,             \* the arguments DownloadConfig is constructed from
    config,             \* the DownloadConfig object, or the error of its construction
    error,              \* the exception that ended the run, <<>> if none did
    writes,             \* number of update_state calls of this run
    n_checks,           \* check_imap_email: the polls left (utils.py:76, 84)
    polls,              \* check_imap_email: n_messages of each search of this call
    download_links,     \* check_imap_email: utils.py:74, 89
    files,              \* names of the files of the working directory
    downloaded,         \* file names download_file was called with, in order
    interrupts          \* Ctrl-C received inside utils.wait in this call

vars == <<pc, config_file, use_imap_email, networks_json, stations_json, state_file,
          cache_hit, stations, station_groups, batches, batch_data_formats, n_batches, requested,
          prompted, ans, requested0, last_outcome, last_batch, accepted, attempts,
          slept, runs, catalog, selection, kwargs,
          config, error, writes,
          n_checks, polls, download_links, files, downloaded, interrupts>>

\* groups of variables, for the UNCHANGED clauses
cli == <<config_file, use_imap_email, config>>
caches == <<networks_json, stations_json>>
plan_vars == <<cache_hit, stations, station_groups, batches, batch_data_formats,
               n_batches>>
load_vars == <<prompted, ans, requested0, runs>>
call_vars == <<last_outcome, last_batch, accepted, attempts>>
fn_vars == <<catalog, selection, kwargs>>
end_vars == <<error, writes>>
imap_vars == <<n_checks, polls, download_links, files, downloaded, interrupts>>
all_but_pc == <<cli, caches, state_file, plan_vars, requested, load_vars,
                call_vars, slept, fn_vars, end_vars, imap_vars>>

\* check_imap_email has not been entered
NoHarvest ==
    /\ n_checks = 0
    /\ polls = <<>>
    /\ download_links = <<>>
    /\ files = {}
    /\ downloaded = <<>>
    /\ interrupts = 0

----------------------------------------------------------------------------
(* Bounds of the model *)

NumStations == 2    \* distinct stations in the partitioner's inputs
MaxLen == 4         \* longest station list given to the partitioner
MaxBatch == 3       \* largest batch size given to the partitioner
MaxConfigBatch == 1 \* largest batch_size of the config files of the runs
MaxCatalog == 2     \* longest station list the catalog returns to a run
NumRevs == 2        \* byte-different revisions of a config file
MaxRuns == 2        \* runs of the script for one configuration name
MaxAttempts == 3    \* config.download calls in one run
MaxRaw == 2         \* longest station list given to expand_hybrid_stations
MaxFiltered == 2    \* longest station list given to the filters
MaxItems == 2       \* most keys of the selection of a config
MaxChecks == 2      \* largest n_checks check_imap_email is called with
MaxMails == 2       \* most unseen messages one mailbox search finds
NumZips == 2        \* distinct zip files the messages link to

StationIds == 1..NumStations

Min(a, b) == IF a <= b THEN a ELSE b
Max(a, b) == IF a >= b THEN a ELSE b
AbsDiff(a, b) == IF a >= b THEN a - b ELSE b - a

\* the set of the items of a list
Range(s) == { s[i] : i \in 1..Len(s) }

RECURSIVE SeqsUpTo(_, _)
\* all sequences over S of length at most n
SeqsUpTo(S, n) ==
    IF n = 0 THEN {<<>>}
    ELSE LET shorter == SeqsUpTo(S, n - 1)
         IN  shorter \cup {Append(s, x) : s \in {t \in shorter : Len(t) = n - 1}, x \in S}

RECURSIVE Concat(_)
\* the groups of a list of groups, joined in order
Concat(gs) == IF gs = <<>> THEN <<>> ELSE Head(gs) \o Concat(Tail(gs))

RECURSIVE SumLens(_)
SumLens(gs) == IF gs = <<>> THEN 0 ELSE Len(Head(gs)) + SumLens(Tail(gs))

RECURSIVE Repeat(_, _)
\* Python's [x]*n
Repeat(x, n) == IF n <= 0 THEN <<>> ELSE <<x>> \o Repeat(x, n - 1)

----------------------------------------------------------------------------
(* tdvms.py *)

data_types == <<"mseed", "fseed", "inventory">>

\* Python's s[a:b] for indices 0 <= a, 0 <= b (clamped to the length)
Slice(s, a, b) ==
    LET lo == Min(a, Len(s))
        hi == Min(b, Len(s))
    IN  IF lo >= hi THEN <<>> ELSE SubSeq(s, lo + 1, hi)

\* a partitioner that loses the items of the remainder: the upper end of the
\* slice uses min(i, m) where the code has min(i + 1, m)
split_into_batches_lossy(sta, batch_size) ==
    LET total_length == Len(sta)
        n == total_length \div batch_size + 1
        k == total_length \div n
        m == total_length % n
    IN  [i \in 1..n |-> Slice(sta, (i - 1) * k + Min(i - 1, m), i * k + Min(i - 1, m))]

\* a partitioner that takes ceil(len/batch_size) groups (at least one) where the
\* code takes floor(len/batch_size) + 1
split_into_batches_ceil(sta, batch_size) ==
    LET total_length == Len(sta)
        n == Max(1, (total_length + batch_size - 1) \div batch_size)
        k == total_length \div n
        m == total_length % n
    IN  [i \in 1..n |-> Slice(sta, (i - 1) * k + Min(i - 1, m), i * k + Min(i, m))]

\* split_into_batches(stations, batch_size), for batch_size >= 1
\* (range(n) is 0..n-1; group i of the code is element i + 1 here)
split_into_batches(sta, batch_size) ==
    LET total_length == Len(sta)
        n == total_length \div batch_size + 1
        k == total_length \div n
        m == total_length % n
    IN  [i \in 1..n |-> Slice(sta, (i - 1) * k + Min(i - 1, m), i * k + Min(i, m))]


\* devices of expand_hybrid_stations: the device flags of a station record
devices == <<"deviceH", "deviceL", "deviceN">>

\* the letters of "ZEN"
components == <<"Z", "E", "N">>

\* device + c of the code: the key of component c of a device
ComponentKey ==
    [deviceH |-> [Z |-> "deviceHZ", E |-> "deviceHE", N |-> "deviceHN"],
     deviceL |-> [Z |-> "deviceLZ", E |-> "deviceLE", N |-> "deviceLN"],
     deviceN |-> [Z |-> "deviceNZ", E |-> "deviceNE", N |-> "deviceNN"]]

\* the keys device + c, c in "ZEN", of one device
ComponentKeys(device) == { ComponentKey[device][components[c]] : c \in 1..3 }

\* a station record of the catalog; full says whether all three components of
\* a device the station has are flagged, or its Z component only
Station(network, code, latitude, longitude, h, l, n, full) ==
    [network |-> network, code |-> code,
     latitude |-> latitude, longitude |-> longitude,
     deviceH |-> h, deviceHZ |-> h, deviceHE |-> h /\ full, deviceHN |-> h /\ full,
     deviceL |-> l, deviceLZ |-> l, deviceLE |-> l /\ full, deviceLN |-> l /\ full,
     deviceN |-> n, deviceNZ |-> n, deviceNE |-> n /\ full, deviceNN |-> n /\ full]

\* sum(int(sta[d]) for d in devices)
number_of_device_types(sta) == Cardinality({ d \in 1..3 : sta[devices[d]] })

\* no_device_sta: the copy with every device flag and component flag False
no_device_sta(sta) ==
    [k \in DOMAIN sta |->
        IF \E d \in 1..3 : k = devices[d] \/ k \in ComponentKeys(devices[d])
        THEN FALSE ELSE sta[k]]

\* new_sta: the copy of no_device_sta with one device and its components True
new_sta(sta, device) ==
    [k \in DOMAIN sta |->
        IF k = device \/ k \in ComponentKeys(device)
        THEN TRUE ELSE no_device_sta(sta)[k]]

\* what the loop body appends for one station, with hybrid deciding from the
\* number of device flags whether the station is expanded
expand_station(sta, hybrid) ==
    IF hybrid
    THEN Concat([d \in 1..3 |-> IF sta[devices[d]]
                                THEN <<new_sta(sta, devices[d])>> ELSE <<>>])
    ELSE <<sta>>

\* an expansion that starts at three device flags where the code starts at two
expand_hybrid_stations_three(raw) ==
    Concat([i \in 1..Len(raw) |->
              expand_station(raw[i], number_of_device_types(raw[i]) > 2)])

\* expand_hybrid_stations(stations)
expand_hybrid_stations(raw) ==
    Concat([i \in 1..Len(raw) |->
              expand_station(raw[i], number_of_device_types(raw[i]) > 1)])


\* stands for obspy's calc_vincenty_inverse: the distance in metres of two
\* points whose coordinates are whole degrees, one degree taken as 111 km along
\* the parallels and the meridians
calc_vincenty_inverse(lat1, lon1, lat2, lon2) ==
    111000 * (AbsDiff(lat1, lat2) + AbsDiff(lon1, lon2))

\* filter_stations_by_network(stations, networks)
filter_stations_by_network(sta, networks) ==
    SelectSeq(sta, LAMBDA s : \E i \in 1..Len(networks) : s.network = networks[i])

\* filter_stations_by_circle(stations, origin_latitude, origin_longitude,
\* min_dist_km, max_dist_km)
filter_stations_by_circle(sta, origin_latitude, origin_longitude, min_dist_km, max_dist_km) ==
    LET sta_dist_km(s) ==
            calc_vincenty_inverse(origin_latitude, origin_longitude,
                                  s.latitude, s.longitude) \div 1000
    IN  SelectSeq(sta, LAMBDA s : /\ min_dist_km <= sta_dist_km(s)
                                  /\ sta_dist_km(s) <= max_dist_km)

\* filter_stations_by_rectangle(stations, north_latitude, west_longitude,
\* south_latitude, east_longitude)
filter_stations_by_rectangle(sta, north_latitude, west_longitude, south_latitude, east_longitude) ==
    SelectSeq(sta, LAMBDA s : /\ west_longitude <= s.longitude
                              /\ s.longitude <= east_longitude
                              /\ south_latitude <= s.latitude
                              /\ s.latitude <= north_latitude)

\* f"{sta['network']}.{sta['code']}": the name as the pair it is made of
full_name(s) == <<s.network, s.code>>

\* filter_stations_by_name(stations, selected_station_names)
filter_stations_by_name(sta, selected_station_names) ==
    SelectSeq(sta, LAMBDA s : \E i \in 1..Len(selected_station_names) :
                                 full_name(s) = selected_station_names[i])

\* "device" + code for the codes H, L, N
DeviceKey == [H |-> "deviceH", L |-> "deviceL", N |-> "deviceN"]

\* filter_stations_by_device_type(stations, device_codes): a station is
\* appended once for every code of device_codes whose flag it has
filter_stations_by_device_type(sta, device_codes) ==
    Concat([i \in 1..Len(sta) |->
              Concat([c \in 1..Len(device_codes) |->
                        IF sta[i][DeviceKey[device_codes[c]]]
                        THEN <<sta[i]>> ELSE <<>>])])


\* a device code that takes a station without device flag for an accelerometer
device_code_default_n(sta) ==
    IF sta.deviceH THEN "H" ELSE IF sta.deviceL THEN "L" ELSE "N"

\* lines 198-207 of request_data: the device code of a station, "" where the
\* code raises "Device type couldn't be figured out"
device_code(sta) ==
    IF sta.deviceH THEN "H"
    ELSE IF sta.deviceL THEN "L"
    ELSE IF sta.deviceN THEN "N"
    ELSE ""

\* lines 197-208 of request_data: the device codes of the stations of a batch
device_codes(stas) == [i \in 1..Len(stas) |-> device_code(stas[i])]

\* a Result that is neither 111 nor 110: request_data takes it as the success
\* answer (the else branch)
ResultAccepted == 0
ResultGeneralError == 110
ResultBusy == 111

\* what requests.post can do inside request_data: raise Timeout, raise
\* ConnectionError, or return a response with a status code and a Result
Responses ==
    { [exc |-> "Timeout", status_code |-> 0, Result |-> 0],
      [exc |-> "ConnectionError", status_code |-> 0, Result |-> 0],
      [exc |-> "", status_code |-> 500, Result |-> 0] }
    \cup { [exc |-> "", status_code |-> 200, Result |-> r] :
             r \in {ResultAccepted, ResultGeneralError, ResultBusy} }

NoResponse == [exc |-> "none", status_code |-> 0, Result |-> 0]

\* the remote service accepted the request: it answered 200 with a Result that
\* is not an error code
Accepted(resp) ==
    /\ resp.exc = ""
    /\ resp.status_code = 200
    /\ resp.Result \notin {ResultGeneralError, ResultBusy}

\* request_data from requests.post on: "return" when it returns normally,
\* "TDVMSException" when it raises the retryable error
request_data(resp) ==
    IF resp.exc = "Timeout" THEN "return"
    ELSE IF resp.exc = "ConnectionError" THEN "TDVMSException"
    ELSE IF resp.status_code = 200
         THEN IF resp.Result = ResultBusy THEN "TDVMSException"
              ELSE IF resp.Result = ResultGeneralError THEN "TDVMSException"
              ELSE "return"
         ELSE "TDVMSException"

----------------------------------------------------------------------------
(* download.py *)

\* the data_format entries of the modelled config files
FormatChoices == { <<data_types[1]>>, <<data_types[1], data_types[3]>> }

\* the config files the runs are started on: a file with batch_size 1 and one
\* format in byte-different revisions (rev) that parse to the same config, and
\* files with the other batch sizes and formats, all of them for network TK; a
\* file that also names a network XX, and a file that asks for a format sac.
\* batch_size 0 passes the isinstance check of DownloadConfig.__init__.
ConfigFiles ==
    { [rev |-> r, batch_size |-> 1, data_format |-> <<data_types[1]>>,
       networks |-> <<"TK">>] : r \in 1..NumRevs }
    \cup [rev : {1}, batch_size : 0..MaxConfigBatch, data_format : FormatChoices,
          networks : {<<"TK">>}]
    \cup { [rev |-> 1, batch_size |-> 1, data_format |-> <<data_types[1]>>,
            networks |-> <<"TK", "XX">>],
           [rev |-> 1, batch_size |-> 1, data_format |-> <<"sac">>,
            networks |-> <<"TK">>] }

\* hashlib.sha256(f.read()).hexdigest(): files of different bytes have
\* different digests
FileHash(f) == <<f.rev, f.batch_size, f.data_format, f.networks>>

NoConfig == [rev |-> 0, batch_size |-> 0, data_format |-> <<>>, networks |-> <<>>]

\* check_cur_state that resets on a changed config without asking
check_cur_state_silent_reset(state, filehash, answer) ==
    IF state # <<>>
    THEN IF state[1].hash # filehash
         THEN [requested |-> 0, exit |-> FALSE, prompted |-> FALSE]
         ELSE [requested |-> state[1].requested, exit |-> FALSE, prompted |-> FALSE]
    ELSE [requested |-> 0, exit |-> FALSE, prompted |-> FALSE]

\* check_cur_state that goes on from 0 when the user declines the reset
check_cur_state_no_exit(state, filehash, answer) ==
    IF state # <<>>
    THEN IF state[1].hash # filehash
         THEN [requested |-> 0, exit |-> FALSE, prompted |-> TRUE]
         ELSE [requested |-> state[1].requested, exit |-> FALSE, prompted |-> FALSE]
    ELSE [requested |-> 0, exit |-> FALSE, prompted |-> FALSE]

\* check_cur_state that starts over although the config is unchanged
check_cur_state_forgets(state, filehash, answer) ==
    IF state # <<>>
    THEN IF state[1].hash # filehash
         THEN IF answer = "y"
              THEN [requested |-> 0, exit |-> FALSE, prompted |-> TRUE]
              ELSE [requested |-> 0, exit |-> TRUE, prompted |-> TRUE]
         ELSE [requested |-> 0, exit |-> FALSE, prompted |-> FALSE]
    ELSE [requested |-> 0, exit |-> FALSE, prompted |-> FALSE]

\* check_cur_state(name, filehash): state is the content of the state file
\* (<<>> when os.path.isfile fails), answer what input() returns if it is called.
\* exit: the function called exit(0); prompted: it called input().
check_cur_state(state, filehash, answer) ==
    IF state # <<>>
    THEN IF state[1].hash # filehash
         THEN IF answer = "y"
              THEN [requested |-> 0, exit |-> FALSE, prompted |-> TRUE]
              ELSE [requested |-> 0, exit |-> TRUE, prompted |-> TRUE]
         ELSE [requested |-> state[1].requested, exit |-> FALSE, prompted |-> FALSE]
    ELSE [requested |-> 0, exit |-> FALSE, prompted |-> FALSE]

\* update_state(name, requested, filehash): the new content of the state file
update_state(req, filehash) == << [hash |-> filehash, requested |-> req] >>

RECURSIVE extend_batches(_, _)
\* the loop of select_stations: self.batches.extend(batches) once per format
extend_batches(formats, bs) ==
    IF formats = <<>> THEN <<>> ELSE bs \o extend_batches(Tail(formats), bs)

RECURSIVE extend_formats(_, _)
\* the loop of select_stations: self.batch_data_formats.extend([f]*n_batches)
extend_formats(formats, n) ==
    IF formats = <<>> THEN <<>>
    ELSE Repeat(Head(formats), n) \o extend_formats(Tail(formats), n)

\* a plan laid out group by group: every group once per format, the formats
\* cycling
plan_group_major(sta, batch_size, data_format) ==
    LET bs == split_into_batches(sta, batch_size)
    IN  [station_groups |-> bs,
         batches |-> Concat([i \in 1..Len(bs) |->
                                Repeat(bs[i], Len(data_format))]),
         batch_data_formats |-> Concat([i \in 1..Len(bs) |-> data_format])]

\* the plan select_stations builds from the filtered stations (batch_size >= 1)
plan(sta, batch_size, data_format) ==
    LET bs == split_into_batches(sta, batch_size)
    IN  [station_groups |-> bs,
         batches |-> extend_batches(data_format, bs),
         batch_data_formats |-> extend_formats(data_format, Len(bs))]


\* a value of a config file as yaml.safe_load returns it: the pair of its
\* Python type and its content
Dict(value) == [type |-> "dict", value |-> value]
List(value) == [type |-> "list", value |-> value]
Other(type) == [type |-> type, value |-> <<>>]

\* the sub-fields of a circle selection, in the order lines 76-79 read them
CircleKeys == <<"latitude", "longitude", "min_dist_km", "max_dist_km">>

\* the sub-fields of a rectangle selection, in the order lines 87-90 read them
RectangleKeys ==
    <<"north_latitude", "west_longitude", "south_latitude", "east_longitude">>

\* the strings d with d in "HLN": the substrings of "HLN"
SubstringsOfHLN == {"", "H", "L", "N", "HL", "LN", "HLN"}

\* the key of the KeyError of args[k1], args[k2], ...: the first key of keys
\* the mapping does not have, "" if it has all
RECURSIVE FirstMissing(_, _)
FirstMissing(mapping, keys) ==
    IF keys = <<>> THEN ""
    ELSE IF Head(keys) \notin DOMAIN mapping THEN Head(keys)
    ELSE FirstMissing(mapping, Tail(keys))

\* the item a loop of the form "for x in list: if x not in allowed: raise"
\* raises for: the first item of the list that is not allowed, <<>> if none
FirstNotIn(list, allowed) ==
    LET bad == { i \in 1..Len(list) : list[i] \notin allowed }
    IN  IF bad = {} THEN <<>>
        ELSE <<list[CHOOSE i \in bad : \A j \in bad : i <= j]>>

\* the object at the start of __init__ (lines 65-69)
NewConfig ==
    [error |-> <<>>, networks |-> <<>>,
     circle_selection |-> <<>>, rectangle_selection |-> <<>>,
     name_selection |-> <<>>, device_type_selection |-> <<>>,
     data_format |-> <<>>, batch_size |-> 0]

\* raise Exception(message)
Raise(cfg, message) == [cfg EXCEPT !.error = message]

\* lines 72-105: one pass of the loop over selection.items()
selection_item(cfg, sel_type, args) ==
    CASE sel_type = "circle" ->
           IF args.type # "dict"
           THEN Raise(cfg, <<"Circle selection needs latitude, longitude, min_dist_km, and max_dist_km arguments.">>)
           ELSE IF FirstMissing(args.value, CircleKeys) # ""
           THEN Raise(cfg, <<"Circle selection needs argument",
                            FirstMissing(args.value, CircleKeys)>>)
           ELSE [cfg EXCEPT !.circle_selection =
                    [i \in 1..4 |-> args.value[CircleKeys[i]]]]
      [] sel_type = "rectangle" ->
           IF args.type # "dict"
           THEN Raise(cfg, <<"Rectangle selection needs latitude and longitude arguments.">>)
           ELSE IF FirstMissing(args.value, RectangleKeys) # ""
           THEN Raise(cfg, <<"Rectangle selection needs argument",
                            FirstMissing(args.value, RectangleKeys)>>)
           ELSE [cfg EXCEPT !.rectangle_selection =
                    [i \in 1..4 |-> args.value[RectangleKeys[i]]]]
      [] sel_type = "name" ->
           IF args.type # "list" \/ Len(args.value) = 0
           THEN Raise(cfg, <<"Name selection should be a list of names">>)
           ELSE [cfg EXCEPT !.name_selection = args.value]
      [] sel_type = "device_type" ->
           IF args.type # "list" \/ Len(args.value) = 0
           THEN Raise(cfg, <<"Device type selection should be a list">>)
           ELSE IF FirstNotIn(args.value, SubstringsOfHLN) # <<>>
           THEN Raise(cfg, <<"Unknown device type",
                            FirstNotIn(args.value, SubstringsOfHLN)[1]>>)
           ELSE [cfg EXCEPT !.device_type_selection = args.value]
      [] OTHER -> Raise(cfg, <<"Unknown selection type", sel_type>>)

\* lines 71-105: the loop over selection.items(), left by the first exception
RECURSIVE selection_items(_, _)
selection_items(cfg, items) ==
    IF items = <<>> \/ cfg.error # <<>> THEN cfg
    ELSE selection_items(selection_item(cfg, items[1][1], items[1][2]),
                         Tail(items))

\* lines 65-108: networks and the selection argument
init_selection(cfg, kw) ==
    IF kw.selection.type = "dict"
    THEN selection_items([cfg EXCEPT !.networks = kw.networks],
                         kw.selection.value)
    ELSE Raise(cfg, <<"Malformed selection argument!">>)

\* a test of the times that looks at starttime only
init_times_start_only(cfg, kw) ==
    IF cfg.error # <<>> THEN cfg
    ELSE IF kw.starttime # "datetime"
    THEN Raise(cfg, <<"starttime couldn't be parsed as date">>)
    ELSE cfg

\* lines 110-115: starttime and endtime
init_times(cfg, kw) ==
    IF cfg.error # <<>> THEN cfg
    ELSE IF kw.starttime # "datetime"
    THEN Raise(cfg, <<"starttime couldn't be parsed as date">>)
    ELSE IF kw.endtime # "datetime"
    THEN Raise(cfg, <<"endtime couldn't be parsed as date">>)
    ELSE cfg

\* lines 117-127: data_format; the value of a str is the list of the pieces
\* between its commas, which is what data_format.split(",") returns
init_data_format(cfg, kw) ==
    IF cfg.error # <<>> THEN cfg
    ELSE IF kw.data_format.type \notin {"str", "list"}
    THEN Raise(cfg, <<"Unrecognized data format">>)
    ELSE IF FirstNotIn(kw.data_format.value, Range(data_types)) # <<>>
    THEN Raise(cfg, <<"Unrecognized data format",
                     FirstNotIn(kw.data_format.value, Range(data_types))[1]>>)
    ELSE [cfg EXCEPT !.data_format = kw.data_format.value]

\* lines 129-132: batch_size
init_batch_size(cfg, kw) ==
    IF cfg.error # <<>> THEN cfg
    ELSE IF kw.batch_size.type = "int"
    THEN [cfg EXCEPT !.batch_size = kw.batch_size.value]
    ELSE Raise(cfg, <<"Batch size should be an integer">>)

\* DownloadConfig(**kw): the object, its error field empty, or the exception
DownloadConfig(kw) ==
    init_batch_size(init_data_format(init_times(init_selection(NewConfig, kw),
                                                kw), kw), kw)

\* utils.load_yaml(filename) of line 188 for a config file of the runs: the
\* files have an empty selection and datetimes
KwargsOf(f) ==
    [networks |-> f.networks, selection |-> Dict(<<>>),
     starttime |-> "datetime", endtime |-> "datetime",
     data_format |-> List(f.data_format),
     batch_size |-> [type |-> "int", value |-> f.batch_size]]

\* validate_networks with the codes of the network catalog: the exception for
\* the first network of the config that is not in the catalog, <<>> if all are
validate_networks(cfg, network_codes) ==
    IF FirstNotIn(cfg.networks, Range(network_codes)) = <<>> THEN <<>>
    ELSE <<"Invalid network", FirstNotIn(cfg.networks, Range(network_codes))[1]>>

\* a script that writes the checkpoint before it selects the stations
checkpoint_before_select(state, err, req, filehash) == update_state(req, filehash)

\* lines 198-204: the checkpoint file after select_stations and update_state;
\* an exception err of select_stations ends the script before update_state
checkpoint_after_select(state, err, req, filehash) ==
    IF err = <<>> THEN update_state(req, filehash) ELSE state

\* lines 145-147: the circle filter, applied if the config has a circle
circle_filtered(sta, sel) ==
    IF sel.circle # <<>>
    THEN filter_stations_by_circle(sta, sel.circle[1], sel.circle[2],
                                   sel.circle[3], sel.circle[4])
    ELSE sta

\* lines 148-150: the rectangle filter, applied if the config has a rectangle
rectangle_filtered(sta, sel) ==
    IF sel.rectangle # <<>>
    THEN filter_stations_by_rectangle(sta, sel.rectangle[1], sel.rectangle[2],
                                      sel.rectangle[3], sel.rectangle[4])
    ELSE sta

\* lines 151-153: the name filter, applied if the config has names
name_filtered(sta, sel) ==
    IF sel.name # <<>> THEN filter_stations_by_name(sta, sel.name) ELSE sta

\* lines 154-156: the device filter, applied if the config has device types
device_type_filtered(sta, sel) ==
    IF sel.device_type # <<>>
    THEN filter_stations_by_device_type(sta, sel.device_type)
    ELSE sta

\* a selection in which every filter is given the full station list, so that
\* the last filter of the config decides alone
filtered_stations_last_wins(sta, sel) ==
    IF sel.device_type # <<>> THEN device_type_filtered(sta, sel)
    ELSE IF sel.name # <<>> THEN name_filtered(sta, sel)
    ELSE IF sel.rectangle # <<>> THEN rectangle_filtered(sta, sel)
    ELSE circle_filtered(sta, sel)

\* lines 145-157 of select_stations: the four filters one after the other
filtered_stations(sta, sel) ==
    device_type_filtered(
        name_filtered(rectangle_filtered(circle_filtered(sta, sel), sel), sel),
        sel)


\* time.sleep(60) of the except branch
RetrySleepSeconds == 60

\* the network codes the GetNetworks endpoint returns
RemoteNetworks == <<"TK", "KO">>

\* the station lists the catalog endpoint returns (after expand_hybrid_stations)
RECURSIVE FirstStations(_)
FirstStations(n) == IF n = 0 THEN <<>> ELSE Append(FirstStations(n - 1), n)

Catalogs == { FirstStations(n) : n \in 0..MaxCatalog } \cup { <<1, 0>> }

\* the record of station id of the catalog: the stations are of the networks
\* TK and KO in turn and have one device, a high gain seismometer or an
\* accelerometer; station 0 has no device flag
CatalogStation(id) ==
    Station(RemoteNetworks[2 - (id % 2)], id, 0, 0,
            id % 2 = 1, FALSE, id > 0 /\ id % 2 = 0, TRUE)

\* positions of the script at which no run is in progress
Stopped == {"idle", "done", "exited", "failed", "killed", "interrupted"}

\* positions of a run in progress
Running == {"select", "loop", "confirm", "request", "returned", "check_email", "sleep"}

----------------------------------------------------------------------------
(* The script of download.py, one run after the other *)

Init ==
    /\ pc = "idle"
    /\ config_file = NoConfig
    /\ use_imap_email = FALSE
    /\ networks_json = <<>>
    /\ stations_json = <<>>
    /\ state_file = <<>>
    /\ cache_hit = FALSE
    /\ stations = <<>>
    /\ station_groups = <<>>
    /\ batches = <<>>
    /\ batch_data_formats = <<>>
    /\ n_batches = 0
    /\ requested = 0
    /\ prompted = FALSE
    /\ ans = ""
    /\ requested0 = 0
    /\ last_outcome = NoResponse
    /\ last_batch = -1
    /\ accepted = <<>>
    /\ attempts = 0
    /\ slept = 0
    /\ runs = 0
    /\ catalog = <<>>
    /\ selection = <<>>
    /\ kwargs = <<>>
    /\ config = <<>>
    /\ error = <<>>
    /\ writes = 0
    /\ NoHarvest

\* lines 176-195: the script is started on config file f; DownloadConfig is
\* constructed, the file hashed and check_cur_state called.  answer is what the
\* user types if check_cur_state asks.  An exception of the constructor ends
\* the script at line 188.
StartRun(f, imap, answer) ==
    /\ pc \in Stopped
    /\ runs < MaxRuns
    /\ LET c == DownloadConfig(KwargsOf(f))
           r == IF c.error = <<>>
                THEN check_cur_state(state_file, FileHash(f), answer)
                ELSE [requested |-> 0, exit |-> FALSE, prompted |-> FALSE]
       IN  /\ config' = c
           /\ error' = c.error
           /\ requested' = r.requested
           /\ requested0' = r.requested
           /\ prompted' = r.prompted
           /\ ans' = IF r.prompted THEN answer ELSE ""
           /\ pc' = IF c.error # <<>> THEN "failed"
                    ELSE IF r.exit THEN "exited" ELSE "select"
    /\ config_file' = f
    /\ use_imap_email' = imap
    /\ runs' = runs + 1
    /\ cache_hit' = FALSE
    /\ stations' = <<>>
    /\ station_groups' = <<>>
    /\ batches' = <<>>
    /\ batch_data_formats' = <<>>
    /\ n_batches' = 0
    /\ last_outcome' = NoResponse
    /\ last_batch' = -1
    /\ accepted' = <<>>
    /\ attempts' = 0
    /\ slept' = 0
    /\ writes' = 0
    /\ UNCHANGED <<imap_vars, fn_vars, caches, state_file>>

\* _get_cached_values: the cache file is read when use_cache and it exists
\* (use_cache is not args.refresh_stations)
CacheHit(refresh) == ~refresh /\ stations_json # <<>>

NetworksCacheHit(refresh) == ~refresh /\ networks_json # <<>>

\* lines 198-204 when a catalog fetch answers with a status code other than
\* 200: the exception ends the run before update_state.  The networks are
\* fetched first (validate_networks) and cached before the stations are fetched.
SelectStationsFetchFails(refresh, endpoint) ==
    /\ pc = "select"
    /\ \/ /\ endpoint = "GetNetworks"
          /\ ~NetworksCacheHit(refresh)
          /\ networks_json' = networks_json
          /\ error' = <<"Fetching networks failed with status code">>
       \/ /\ endpoint = "GetStations"
          /\ validate_networks(config, RemoteNetworks) = <<>>
          /\ ~CacheHit(refresh)
          /\ networks_json' = <<RemoteNetworks>>
          /\ error' = <<"Fetching stations failed with status code">>
    /\ state_file' = checkpoint_after_select(state_file, error', requested,
                                             FileHash(config_file))
    /\ pc' = "failed"
    /\ UNCHANGED <<imap_vars, fn_vars, cli, stations_json, plan_vars, requested, load_vars,
                   call_vars, slept, writes>>

\* lines 198-204 when the config names a network the catalog does not have:
\* validate_networks raises after the networks were read or fetched and cached
SelectStationsInvalidNetwork(refresh) ==
    /\ pc = "select"
    /\ validate_networks(config, RemoteNetworks) # <<>>
    /\ networks_json' = <<RemoteNetworks>>
    /\ error' = validate_networks(config, RemoteNetworks)
    /\ state_file' = checkpoint_after_select(state_file, error', requested,
                                             FileHash(config_file))
    /\ pc' = "failed"
    /\ UNCHANGED <<imap_vars, fn_vars, cli, stations_json, plan_vars, requested, load_vars,
                   call_vars, slept, writes>>

\* lines 198-204 with batch_size 0: split_into_batches divides by zero, after
\* the catalog was cached and the station list stored in config.stations
SelectStationsZeroDivision(refresh, fetched) ==
    /\ pc = "select"
    /\ validate_networks(config, RemoteNetworks) = <<>>
    /\ config.batch_size = 0
    /\ LET data == IF CacheHit(refresh) THEN stations_json[1] ELSE fetched
       IN  /\ stations_json' = <<data>>
           /\ cache_hit' = CacheHit(refresh)
           /\ stations' = data
    /\ networks_json' = <<RemoteNetworks>>
    /\ error' = <<"ZeroDivisionError">>
    /\ state_file' = checkpoint_after_select(state_file, error', requested,
                                             FileHash(config_file))
    /\ pc' = "failed"
    /\ UNCHANGED <<imap_vars, fn_vars, cli, station_groups, batches, batch_data_formats,
                   n_batches, requested, load_vars, call_vars, slept, writes>>

\* lines 198-204: select_stations builds the plan from the cached or fetched
\* station list of all networks of the catalog, then update_state writes the
\* checkpoint (the config files of the runs have no selection to filter by)
SelectStations(refresh, fetched) ==
    /\ pc = "select"
    /\ validate_networks(config, RemoteNetworks) = <<>>
    /\ config.batch_size >= 1
    /\ LET data == IF CacheHit(refresh) THEN stations_json[1] ELSE fetched
           p == plan(data, config.batch_size, config.data_format)
       IN  /\ stations_json' = <<data>>
           /\ cache_hit' = CacheHit(refresh)
           /\ stations' = data
           /\ station_groups' = p.station_groups
           /\ batches' = p.batches
           /\ batch_data_formats' = p.batch_data_formats
           /\ n_batches' = Len(p.batches)
    /\ networks_json' = <<RemoteNetworks>>
    /\ state_file' = checkpoint_after_select(state_file, <<>>, requested,
                                             FileHash(config_file))
    /\ writes' = 1
    /\ pc' = "loop"
    /\ UNCHANGED <<imap_vars, fn_vars, cli, requested, load_vars, call_vars, slept, error>>

\* a loop that asks for the confirmation when IMAP is used, and only then
loop_top_asks_with_imap(req, n, imap) ==
    IF req < n THEN IF imap THEN "confirm" ELSE "request" ELSE "done"

\* lines 217-218: where the loop goes from its test, with req batches
\* requested of n and imap the value of use_imap_email
loop_top(req, n, imap) ==
    IF req < n THEN IF imap THEN "request" ELSE "confirm" ELSE "done"

\* line 217 and 218-221: the loop test
LoopTest ==
    /\ pc = "loop"
    /\ pc' = loop_top(requested, n_batches, use_imap_email)
    /\ UNCHANGED all_but_pc

\* line 220: input("Press enter to request the next batch! ") returns
Confirm ==
    /\ pc = "confirm"
    /\ pc' = "request"
    /\ UNCHANGED all_but_pc

\* the records of the stations of batch number batch_id of the plan
BatchStations(batch_id) ==
    [i \in 1..Len(batches[batch_id + 1]) |->
        CatalogStation(batches[batch_id + 1][i])]

\* line 224 when a station of the batch has no device flag: request_data
\* raises an Exception before requests.post, which the loop does not catch
DownloadDataError ==
    /\ pc = "request"
    /\ "" \in Range(device_codes(BatchStations(requested)))
    /\ error' = <<"Device type couldn't be figured out">>
    /\ pc' = "failed"
    /\ UNCHANGED <<imap_vars, fn_vars, cli, caches, state_file, plan_vars, requested,
                   load_vars, call_vars, slept, writes>>

\* line 224: config.download(requested, email) with resp what requests.post does
Download(resp) ==
    /\ pc = "request"
    /\ "" \notin Range(device_codes(BatchStations(requested)))
    /\ attempts < MaxAttempts
    /\ last_outcome' = resp
    /\ last_batch' = requested
    /\ attempts' = attempts + 1
    /\ accepted' = IF Accepted(resp) THEN Append(accepted, requested) ELSE accepted
    /\ slept' = 0
    /\ pc' = IF request_data(resp) = "return" THEN "returned" ELSE "sleep"
    /\ UNCHANGED <<imap_vars, fn_vars, end_vars, cli, caches, state_file, plan_vars,
                   requested, load_vars>>

\* lines 225-226 after config.download returned: requested += 1, update_state
Advance ==
    /\ pc = "returned"
    /\ requested' = requested + 1
    /\ state_file' = update_state(requested', FileHash(config_file))
    /\ writes' = writes + 1
    /\ pc' = IF use_imap_email THEN "check_email" ELSE "loop"
    /\ UNCHANGED <<imap_vars, fn_vars, cli, caches, plan_vars, load_vars, call_vars, slept,
                   error>>

\* lines 227-228: utils.check_imap_email returns, or raises an exception the
\* loop does not catch (EmailParseException)
CheckImapEmail(raises) ==
    /\ pc = "check_email"
    /\ pc' = IF raises THEN "failed" ELSE "loop"
    /\ error' = IF raises THEN <<"EmailParseException">> ELSE error
    /\ UNCHANGED <<imap_vars, fn_vars, cli, caches, state_file, plan_vars, requested,
                   load_vars, call_vars, slept, writes>>

\* a loop that gives a batch up after MaxAttempts submissions
after_sleep_gives_up(n) == IF n >= MaxAttempts THEN "done" ELSE "loop"

\* where the except branch goes after its sleep, n submissions made so far:
\* back to the loop test, however many there were (no counter, no break)
after_sleep(n) == "loop"

\* lines 229-232: the except branch sleeps, then the loop goes on
Sleep ==
    /\ pc = "sleep"
    /\ slept' = RetrySleepSeconds
    /\ pc' = after_sleep(attempts)
    /\ UNCHANGED <<imap_vars, fn_vars, end_vars, cli, caches, state_file, plan_vars,
                   requested, load_vars, call_vars>>

\* the process and what it held in memory are gone, the files stay
ProcessGone ==
    /\ config_file' = NoConfig
    /\ use_imap_email' = FALSE
    /\ config' = <<>>
    /\ cache_hit' = FALSE
    /\ stations' = <<>>
    /\ station_groups' = <<>>
    /\ batches' = <<>>
    /\ batch_data_formats' = <<>>
    /\ n_batches' = 0
    /\ requested' = 0
    /\ prompted' = FALSE
    /\ ans' = ""
    /\ requested0' = 0
    /\ last_outcome' = NoResponse
    /\ last_batch' = -1
    /\ accepted' = <<>>
    /\ attempts' = 0
    /\ slept' = 0
    /\ error' = <<>>
    /\ writes' = 0
    /\ UNCHANGED <<imap_vars, fn_vars, caches, state_file, runs>>

\* line 232 when the user hits Ctrl-C during the sleep: time.sleep(60) is
\* called as it is, not through utils.wait, and the while loop catches
\* TDVMSException only, so KeyboardInterrupt ends the script
InterruptSleep ==
    /\ pc = "sleep"
    /\ pc' = "interrupted"
    /\ ProcessGone

\* the user stops the run (Ctrl-C outside utils.wait, or kill)
Kill ==
    /\ pc \in Running
    /\ pc' = "killed"
    /\ ProcessGone

Next ==
    \/ \E f \in ConfigFiles, imap \in BOOLEAN, answer \in {"y", "n"} :
         StartRun(f, imap, answer)
    \/ \E refresh \in BOOLEAN, endpoint \in {"GetNetworks", "GetStations"} :
         SelectStationsFetchFails(refresh, endpoint)
    \/ \E refresh \in BOOLEAN : SelectStationsInvalidNetwork(refresh)
    \/ \E refresh \in BOOLEAN, fetched \in Catalogs :
         SelectStationsZeroDivision(refresh, fetched)
    \/ \E refresh \in BOOLEAN, fetched \in Catalogs : SelectStations(refresh, fetched)
    \/ LoopTest
    \/ Confirm
    \/ DownloadDataError
    \/ \E resp \in Responses : Download(resp)
    \/ Advance
    \/ \E raises \in BOOLEAN : CheckImapEmail(raises)
    \/ Sleep
    \/ InterruptSleep
    \/ Kill

Spec == Init /\ [][Next]_vars


----------------------------------------------------------------------------
(* The partitioner and the plan on their own: lines 157-165 of select_stations
   applied to every filtered station list and every batch size >= 1 *)

InitPlan ==
    /\ pc = "partition"
    /\ config_file \in [rev : {1}, batch_size : 1..MaxBatch, data_format : FormatChoices]
    /\ stations \in SeqsUpTo(StationIds, MaxLen)
    /\ cache_hit = FALSE
    /\ use_imap_email = FALSE
    /\ networks_json = <<>>
    /\ stations_json = <<>>
    /\ state_file = <<>>
    /\ station_groups = <<>>
    /\ batches = <<>>
    /\ batch_data_formats = <<>>
    /\ n_batches = 0
    /\ requested = 0
    /\ prompted = FALSE
    /\ ans = ""
    /\ requested0 = 0
    /\ last_outcome = NoResponse
    /\ last_batch = -1
    /\ accepted = <<>>
    /\ attempts = 0
    /\ slept = 0
    /\ runs = 0
    /\ catalog = <<>>
    /\ selection = <<>>
    /\ kwargs = <<>>
    /\ config = <<>>
    /\ error = <<>>
    /\ writes = 0
    /\ NoHarvest

\* lines 157-165 of select_stations and line 200
PartitionStations ==
    /\ pc = "partition"
    /\ LET p == plan(stations, config_file.batch_size, config_file.data_format)
       IN  /\ station_groups' = p.station_groups
           /\ batches' = p.batches
           /\ batch_data_formats' = p.batch_data_formats
           /\ n_batches' = Len(p.batches)
    /\ pc' = "planned"
    /\ UNCHANGED <<imap_vars, fn_vars, end_vars, cli, caches, state_file, cache_hit, stations,
                   requested, load_vars, call_vars, slept>>

NextPlan == PartitionStations

SpecPlan == InitPlan /\ [][NextPlan]_vars


----------------------------------------------------------------------------
(* expand_hybrid_stations on its own, applied to every station list the
   GetStations endpoint may answer with *)

\* the state of download.py before its first run, for the specifications of
\* single functions
NoRun ==
    /\ config_file = NoConfig
    /\ use_imap_email = FALSE
    /\ networks_json = <<>>
    /\ stations_json = <<>>
    /\ state_file = <<>>
    /\ cache_hit = FALSE
    /\ station_groups = <<>>
    /\ batches = <<>>
    /\ batch_data_formats = <<>>
    /\ n_batches = 0
    /\ requested = 0
    /\ prompted = FALSE
    /\ ans = ""
    /\ requested0 = 0
    /\ last_outcome = NoResponse
    /\ last_batch = -1
    /\ accepted = <<>>
    /\ attempts = 0
    /\ slept = 0
    /\ runs = 0

\* the station records of the GetStations answer: every combination of device
\* flags
RawStations ==
    { Station(RemoteNetworks[1], code, 0, 0, h, l, n, full) :
        code \in StationIds, h \in BOOLEAN, l \in BOOLEAN, n \in BOOLEAN,
        full \in BOOLEAN }

InitExpand ==
    /\ pc = "expand"
    /\ catalog \in SeqsUpTo(RawStations, MaxRaw)
    /\ stations = <<>>
    /\ selection = <<>>
    /\ kwargs = <<>>
    /\ config = <<>>
    /\ error = <<>>
    /\ writes = 0
    /\ NoHarvest
    /\ NoRun

\* line 49 of get_stations: return expand_hybrid_stations(stations)
ExpandHybridStations ==
    /\ pc = "expand"
    /\ stations' = expand_hybrid_stations(catalog)
    /\ pc' = "expanded"
    /\ UNCHANGED <<imap_vars, cli, caches, state_file, cache_hit, station_groups, batches,
                   batch_data_formats, n_batches, requested, load_vars,
                   call_vars, slept, fn_vars, end_vars>>

NextExpand == ExpandHybridStations

SpecExpand == InitExpand /\ [][NextExpand]_vars


----------------------------------------------------------------------------
(* The filters of select_stations on their own, applied to every station list
   and selection *)

\* stations at three places, of two codes, with a high gain seismometer alone
\* or together with a low gain one
FilterStations ==
    { Station(RemoteNetworks[1], code, pos[1], pos[2], TRUE, l, FALSE, TRUE) :
        code \in 1..2, pos \in {<<0, 0>>, <<1, 0>>, <<1, 1>>}, l \in BOOLEAN }

\* the selections of a config: each of circle, rectangle, name and device_type
\* absent (None) or given.  The circle is (latitude, longitude, min_dist_km,
\* max_dist_km), the rectangle (north_latitude, west_longitude,
\* south_latitude, east_longitude).
Selections ==
    [circle : {<<>>, <<0, 0, 0, 120>>},
     rectangle : {<<>>, <<1, 0, 1, 1>>},
     name : {<<>>, << <<RemoteNetworks[1], 1>> >>},
     device_type : {<<>>, <<"L">>, <<"H", "L">>, <<"H", "H">>}]

InitFilter ==
    /\ pc = "filter"
    /\ catalog \in SeqsUpTo(FilterStations, MaxFiltered)
    /\ selection \in Selections
    /\ stations = <<>>
    /\ kwargs = <<>>
    /\ config = <<>>
    /\ error = <<>>
    /\ writes = 0
    /\ NoHarvest
    /\ NoRun

\* lines 145-157 of select_stations
FilterStationsBySelection ==
    /\ pc = "filter"
    /\ stations' = filtered_stations(catalog, selection)
    /\ pc' = "filtered"
    /\ UNCHANGED <<imap_vars, cli, caches, state_file, cache_hit, station_groups, batches,
                   batch_data_formats, n_batches, requested, load_vars,
                   call_vars, slept, fn_vars, end_vars>>

NextFilter == FilterStationsBySelection

SpecFilter == InitFilter /\ [][NextFilter]_vars


----------------------------------------------------------------------------
(* DownloadConfig.__init__ on its own, applied to what yaml.safe_load may
   return for a config file *)

\* the values of the selection keys: circle and rectangle complete, without
\* sub-fields and not a mapping; names and device types that are no list, an
\* empty list, or a list of good or bad entries; a key that is no selection
SelectionItems ==
    { <<"circle", a>> :
        a \in { Dict([latitude |-> 0, longitude |-> 0, min_dist_km |-> 0,
                      max_dist_km |-> 120]),
                Dict([latitude |-> 0, min_dist_km |-> 0, max_dist_km |-> 120]),
                Dict([longitude |-> 0, min_dist_km |-> 0]),
                List(<<>>) } }
    \cup { <<"rectangle", a>> :
        a \in { Dict([north_latitude |-> 1, west_longitude |-> 0,
                      south_latitude |-> 1, east_longitude |-> 1]),
                Dict([north_latitude |-> 1, west_longitude |-> 0,
                      east_longitude |-> 1]),
                Other("str") } }
    \cup { <<"name", a>> :
        a \in { List(<< <<RemoteNetworks[1], 1>> >>), List(<<>>), Other("str") } }
    \cup { <<"device_type", a>> :
        a \in { List(<<"H">>), List(<<"N", "H">>), List(<<"X">>),
                List(<<"L", "X">>), List(<<"HL">>), List(<<"">>), List(<<>>),
                Other("str") } }
    \cup { <<"polygon", List(<<>>)>> }

\* the selection argument: a mapping of up to MaxItems keys, in the order of
\* the file, or a value that is no mapping
SelectionArgs ==
    { Dict(items) : items \in { q \in SeqsUpTo(SelectionItems, MaxItems) :
                                  \A i, j \in 1..Len(q) :
                                      i # j => q[i][1] # q[j][1] } }
    \cup { List(<<>>), Other("NoneType") }

\* the data_format argument: a str of comma separated names, a list, or None
DataFormatArgs ==
    { [type |-> "str", value |-> <<data_types[1]>>],
      [type |-> "str", value |-> <<data_types[1], " fseed">>],
      List(<<data_types[1], data_types[3]>>),
      List(<<data_types[2], "sac">>),
      Other("NoneType") }

\* the batch_size argument: an int, a str or a float
BatchSizeArgs ==
    { [type |-> "int", value |-> v] : v \in -1..MaxConfigBatch }
    \cup { [type |-> "str", value |-> 0], [type |-> "float", value |-> 0] }

\* the arguments of the constructor: every selection with the other arguments
\* good, and every combination of the other arguments with three selections
ConstructorArgs ==
    [networks : {<<"TK">>},
     selection : SelectionArgs, starttime : {"datetime"}, endtime : {"datetime"},
     data_format : {List(<<data_types[1], data_types[3]>>)},
     batch_size : {[type |-> "int", value |-> 1]}]
    \cup [networks : {<<"TK">>},
          selection : {Dict(<<>>), Other("NoneType"),
                       Dict(<< <<"name", List(<<>>)>> >>)},
          starttime : {"datetime", "date"}, endtime : {"datetime", "str"},
          data_format : DataFormatArgs, batch_size : BatchSizeArgs]

InitConfig ==
    /\ pc = "construct"
    /\ kwargs \in ConstructorArgs
    /\ config = <<>>
    /\ error = <<>>
    /\ writes = 0
    /\ NoHarvest
    /\ catalog = <<>>
    /\ selection = <<>>
    /\ stations = <<>>
    /\ NoRun

\* line 188: config = DownloadConfig(**utils.load_yaml(filename))
ConstructConfig ==
    /\ pc = "construct"
    /\ config' = DownloadConfig(kwargs)
    /\ pc' = "constructed"
    /\ UNCHANGED <<imap_vars, config_file, use_imap_email, caches, state_file, plan_vars,
                   requested, load_vars, call_vars, slept, fn_vars, end_vars>>

NextConfig == ConstructConfig

SpecConfig == InitConfig /\ [][NextConfig]_vars


----------------------------------------------------------------------------
(* One run of the script to its end, the request loop retrying for as long as
   it takes: the run starts on any checkpoint file an earlier run can have
   left and is not stopped by the user *)

\* the checkpoint files earlier runs leave: none, or the count of a run on a
\* config file of batch size 1 that was stopped after r batches
Checkpoints ==
    {<<>>} \cup { update_state(r, FileHash(f)) :
                    r \in 0..MaxCatalog, f \in { g \in ConfigFiles : g.batch_size = 1 } }

InitLive ==
    /\ pc = "idle"
    /\ config_file = NoConfig
    /\ use_imap_email = FALSE
    /\ networks_json = <<>>
    /\ stations_json = <<>>
    /\ state_file \in Checkpoints
    /\ cache_hit = FALSE
    /\ stations = <<>>
    /\ station_groups = <<>>
    /\ batches = <<>>
    /\ batch_data_formats = <<>>
    /\ n_batches = 0
    /\ requested = 0
    /\ prompted = FALSE
    /\ ans = ""
    /\ requested0 = 0
    /\ last_outcome = NoResponse
    /\ last_batch = -1
    /\ accepted = <<>>
    /\ attempts = 0
    /\ slept = 0
    /\ runs = 0
    /\ catalog = <<>>
    /\ selection = <<>>
    /\ kwargs = <<>>
    /\ config = <<>>
    /\ error = <<>>
    /\ writes = 0
    /\ NoHarvest

\* the script is started once
StartOnce(f, imap, answer) ==
    /\ pc = "idle"
    /\ StartRun(f, imap, answer)

\* line 224 as often as the loop comes to it: attempts counts the calls up to
\* MaxAttempts and stays there, the loop has no counter of its own
DownloadAgain(resp) ==
    /\ pc = "request"
    /\ "" \notin Range(device_codes(BatchStations(requested)))
    /\ last_outcome' = resp
    /\ last_batch' = requested
    /\ attempts' = Min(attempts + 1, MaxAttempts)
    /\ accepted' = IF Accepted(resp) THEN Append(accepted, requested) ELSE accepted
    /\ slept' = 0
    /\ pc' = IF request_data(resp) = "return" THEN "returned" ELSE "sleep"
    /\ UNCHANGED <<imap_vars, fn_vars, end_vars, cli, caches, state_file, plan_vars,
                   requested, load_vars>>

\* the remote service accepts the submission
DownloadAccepted == \E resp \in Responses : Accepted(resp) /\ DownloadAgain(resp)

NextLive ==
    \/ \E f \in ConfigFiles, imap \in BOOLEAN, answer \in {"y", "n"} :
         StartOnce(f, imap, answer)
    \/ \E refresh \in BOOLEAN, endpoint \in {"GetNetworks", "GetStations"} :
         SelectStationsFetchFails(refresh, endpoint)
    \/ \E refresh \in BOOLEAN : SelectStationsInvalidNetwork(refresh)
    \/ \E refresh \in BOOLEAN, fetched \in Catalogs :
         SelectStationsZeroDivision(refresh, fetched)
    \/ \E refresh \in BOOLEAN, fetched \in Catalogs : SelectStations(refresh, fetched)
    \/ LoopTest
    \/ Confirm
    \/ DownloadDataError
    \/ \E resp \in Responses : DownloadAgain(resp)
    \/ Advance
    \/ \E raises \in BOOLEAN : CheckImapEmail(raises)
    \/ Sleep

\* the process takes its next step (the user answers each prompt), and of the
\* submissions of a batch the remote service accepts one in the end
SpecLive ==
    /\ InitLive
    /\ [][NextLive]_vars
    /\ WF_vars(NextLive)
    /\ SF_vars(DownloadAccepted)

----------------------------------------------------------------------------
(* utils.check_imap_email on its own: one call, from its first line to its
   return or to the exception that leaves it *)

\* the link to zip file number n, as the parts between its slashes
ZipUrl(n) == <<"https:", "", "tdvms.afad.gov.tr", "files", n>>

\* the text of a message: <<>> when no link is in it, else <<the link>>
Bodies == {<<>>} \cup { <<ZipUrl(n)>> : n \in 1..NumZips }

\* what mailbox.search finds: the unseen messages of the sender, oldest first
Inboxes == SeqsUpTo(Bodies, MaxMails)

\* link.split("/")[-1]
filename(link) == link[Len(link)]

\* reversed(mails)
reversed(mails) == [i \in 1..Len(mails) |-> mails[Len(mails) + 1 - i]]

\* lines 86-89: the links of the messages, newest first, appended to links;
\* raises at the first message without a link
RECURSIVE harvest_links(_, _)
harvest_links(links, mails) ==
    IF mails = <<>> THEN [download_links |-> links, raises |-> FALSE]
    ELSE IF Head(mails) = <<>> THEN [download_links |-> links, raises |-> TRUE]
    ELSE harvest_links(Append(links, Head(mails)[1]), Tail(mails))

\* the for loop of lines 93-99 downloading every link again
RECURSIVE download_links_again(_, _, _)
download_links_again(links, present, done) ==
    IF links = <<>> THEN [files |-> present, downloaded |-> done]
    ELSE download_links_again(Tail(links), present \cup {filename(Head(links))},
                              Append(done, filename(Head(links))))

\* the for loop of lines 93-99: present are the files that exist, done the
\* file names download_file was called with
RECURSIVE download_new_links(_, _, _)
download_new_links(links, present, done) ==
    IF links = <<>> THEN [files |-> present, downloaded |-> done]
    ELSE IF filename(Head(links)) \in present
         THEN download_new_links(Tail(links), present, done)
         ELSE download_new_links(Tail(links), present \cup {filename(Head(links))},
                                 Append(done, filename(Head(links))))

\* what the script of download.py holds, all of it but pc and error
script_vars == <<cli, caches, state_file, plan_vars, requested, load_vars,
                 call_vars, slept, catalog, selection, writes>>

InitImap ==
    /\ pc = "poll"
    /\ kwargs \in [n_checks : 0..MaxChecks]
    /\ n_checks = kwargs.n_checks
    /\ polls = <<>>
    /\ download_links = <<>>
    /\ files \in SUBSET (1..NumZips)
    /\ downloaded = <<>>
    /\ interrupts = 0
    /\ catalog = <<>>
    /\ selection = <<>>
    /\ stations = <<>>
    /\ config = <<>>
    /\ error = <<>>
    /\ writes = 0
    /\ NoRun

\* lines 76-84, 91: a search that finds no message; n_checks goes down by one
\* and wait is entered
PollEmpty ==
    /\ pc = "poll"
    /\ n_checks > 0
    /\ n_checks' = n_checks - 1
    /\ polls' = Append(polls, 0)
    /\ pc' = "wait"
    /\ UNCHANGED <<script_vars, kwargs, error, download_links, files, downloaded,
                   interrupts>>

\* lines 76-90: a search that finds mails; the links are taken from them and
\* the loop is left by break, or by the exception of a message without a link
PollFinds(mails) ==
    /\ pc = "poll"
    /\ n_checks > 0
    /\ mails # <<>>
    /\ polls' = Append(polls, Len(mails))
    /\ LET h == harvest_links(download_links, reversed(mails))
       IN  /\ download_links' = h.download_links
           /\ pc' = IF h.raises THEN "raised" ELSE "downloads"
           /\ error' = IF h.raises THEN <<"EmailParseException">> ELSE error
    /\ UNCHANGED <<script_vars, kwargs, n_checks, files, downloaded, interrupts>>

\* lines 77-79: the connection, the login or the search fails
PollFails ==
    /\ pc = "poll"
    /\ n_checks > 0
    /\ pc' = "raised"
    /\ error' = <<"imaplib.IMAP4.error">>
    /\ UNCHANGED <<script_vars, kwargs, imap_vars>>

\* line 76 when n_checks is used up
PollsUsedUp ==
    /\ pc = "poll"
    /\ n_checks <= 0
    /\ pc' = "downloads"
    /\ UNCHANGED <<script_vars, kwargs, error, imap_vars>>

\* utils.wait, line 37: the sleep ends by itself
WaitOver ==
    /\ pc = "wait"
    /\ pc' = "poll"
    /\ UNCHANGED <<script_vars, kwargs, error, imap_vars>>

\* utils.wait, lines 38-40: Ctrl-C during the sleep is caught and the shorter
\* sleep entered
InterruptWait ==
    /\ pc = "wait"
    /\ interrupts' = interrupts + 1
    /\ pc' = "grace"
    /\ UNCHANGED <<script_vars, kwargs, error, n_checks, polls, download_links,
                   files, downloaded>>

\* utils.wait, line 40: the shorter sleep ends by itself
GraceOver ==
    /\ pc = "grace"
    /\ pc' = "poll"
    /\ UNCHANGED <<script_vars, kwargs, error, imap_vars>>

\* utils.wait, line 40: Ctrl-C during the shorter sleep, inside the except
\* clause, leaves wait and check_imap_email
InterruptGrace ==
    /\ pc = "grace"
    /\ interrupts' = interrupts + 1
    /\ error' = <<"KeyboardInterrupt">>
    /\ pc' = "raised"
    /\ UNCHANGED <<script_vars, kwargs, n_checks, polls, download_links, files,
                   downloaded>>

\* lines 93-99: the links are downloaded, those with a file of their name left
\* out, and the function returns
DownloadLinks ==
    /\ pc = "downloads"
    /\ LET d == download_new_links(download_links, files, downloaded)
       IN  /\ files' = d.files
           /\ downloaded' = d.downloaded
    /\ pc' = "returned"
    /\ UNCHANGED <<script_vars, kwargs, error, n_checks, polls, download_links,
                   interrupts>>

NextImap ==
    \/ PollEmpty
    \/ \E mails \in Inboxes : PollFinds(mails)
    \/ PollFails
    \/ PollsUsedUp
    \/ WaitOver
    \/ InterruptWait
    \/ GraceOver
    \/ InterruptGrace
    \/ DownloadLinks

\* the interpreter takes the next step of the function, each sleep ends
SpecImap == InitImap /\ [][NextImap]_vars /\ WF_vars(NextImap)

----------------------------------------------------------------------------
(* Claims *)

\* C1: for every station list S and batch size b >= 1 the groups of
\* split_into_batches(S, b) have sizes that sum to len(S), no two sizes differ
\* by more than 1, and the groups joined in order are S.
C1_PartitionPreserves ==
    pc = "planned" =>
        /\ SumLens(station_groups) = Len(stations)
        /\ \A i, j \in 1..Len(station_groups) :
               AbsDiff(Len(station_groups[i]), Len(station_groups[j])) <= 1
        /\ Concat(station_groups) = stations

\* 4 stations at batch size 3: two groups of two, in the order of the input
C1_Witness ==
    /\ pc = "planned"
    /\ config_file.batch_size = 3
    /\ stations = <<1, 2, 2, 1>>
    /\ station_groups = << <<1, 2>>, <<2, 1>> >>

\* C2: a run that resumes with the unchanged config file and the unchanged
\* station cache from a checkpoint of N submissions starts at batch N and, when
\* it finishes, has had exactly total_batches - N submissions accepted, at
\* positions N, N+1, ... and none before N.
C2_ResumeIdempotent ==
    (pc = "done" /\ runs >= 2 /\ ~prompted /\ cache_hit) =>
        /\ Len(accepted) = n_batches - requested0
        /\ \A i \in 1..Len(accepted) : accepted[i] = requested0 + i - 1

\* C3: in the loop, requested changes only by +1 and only right after a
\* config.download call the remote service accepted, together with a checkpoint
\* write of the new value; nothing else changes requested or the checkpoint
\* (a step that kills the process, with the requested it held, is no step of
\* the loop).
C3_AdvanceOnlyOnSuccess ==
    [][ (pc \in Running \ {"select"} /\ pc' \notin {"killed", "interrupted"}) =>
          /\ (requested' # requested =>
                /\ requested' = requested + 1
                /\ pc = "returned"
                /\ Accepted(last_outcome)
                /\ state_file' = update_state(requested', FileHash(config_file)))
          /\ (state_file' # state_file =>
                /\ requested' = requested + 1
                /\ Accepted(last_outcome)) ]_vars

\* C4: after a retryable error the checkpoint and requested are unchanged, the
\* script has slept 60 seconds before the next attempt and that attempt is for
\* the same batch; the batches the service accepted in a run are requested0,
\* requested0 + 1, ... in this order, each once.
C4_RetrySameBatchNoSkip ==
    /\ (attempts > 0 /\ request_data(last_outcome) = "TDVMSException"
          /\ pc \in {"sleep", "loop", "confirm", "request"}) =>
           /\ requested = last_batch
           /\ state_file = update_state(last_batch, FileHash(config_file))
           /\ (pc = "request" => slept = RetrySleepSeconds)
    /\ \A i \in 1..Len(accepted) : accepted[i] = requested0 + i - 1

\* C5: a request timeout advances neither requested nor the checkpoint: the
\* batch that timed out stays the next batch to submit.
C5_TimeoutNoAdvance ==
    (last_outcome.exc = "Timeout" /\ pc \in Running) =>
        /\ requested = last_batch
        /\ state_file = update_state(last_batch, FileHash(config_file))

\* C6: over all runs the persisted requested never decreases, except that it is
\* set to 0 in a run whose load found a hash mismatch and whose user answered
\* the reset question with "y".
C6_PersistedMonotone ==
    [][ (state_file # <<>> /\ state_file' # state_file) =>
          /\ state_file' # <<>>
          /\ \/ state_file'[1].requested >= state_file[1].requested
             \/ /\ state_file'[1].requested = 0
                /\ prompted
                /\ ans = "y" ]_vars

\* a second run took over a persisted count of at least 1 and raised it
C6_Witness ==
    /\ runs = 2
    /\ ~prompted
    /\ requested0 >= 1
    /\ state_file # <<>>
    /\ state_file[1].requested > requested0

\* C7: a run that finds a checkpoint whose hash differs from the hash of its
\* config file (a run that got past the construction of its DownloadConfig,
\* which comes before the checkpoint is read) asks for the reset first; if the user does not answer "y" the
\* run ends there, the checkpoint file as it was and no submission issued.
C7_DeclineLeavesCheckpoint ==
    [][ /\ (runs' = runs + 1 /\ config'.error = <<>> /\ state_file # <<>>
              /\ state_file[1].hash # FileHash(config_file')) =>
               /\ prompted'
               /\ (ans' # "y" =>
                     /\ pc' = "exited"
                     /\ state_file' = state_file
                     /\ attempts' = 0
                     /\ accepted' = <<>>)
        /\ (pc = "exited" => (runs' = runs + 1 \/ UNCHANGED vars)) ]_vars

\* the user declined the reset of a checkpoint that counts at least one batch
C7_Witness ==
    /\ pc = "exited"
    /\ prompted
    /\ ans = "n"
    /\ attempts = 0
    /\ state_file # <<>>
    /\ state_file[1].hash # FileHash(config_file)
    /\ state_file[1].requested >= 1

\* C8: when the stored hash equals the hash of the config file the run does not
\* ask and starts from the stored requested; without a checkpoint file it
\* starts from 0 (a run is one that got as far as reading the checkpoint).
C8_LoadReusesStored ==
    [][ (runs' = runs + 1 /\ config'.error = <<>>) =>
          /\ (state_file # <<>> /\ state_file[1].hash = FileHash(config_file')) =>
                /\ ~prompted'
                /\ pc' = "select"
                /\ requested' = state_file[1].requested
          /\ state_file = <<>> =>
                /\ ~prompted'
                /\ pc' = "select"
                /\ requested' = 0 ]_vars

\* a second run with the unchanged config file starts from a stored count >= 1
C8_Witness ==
    /\ runs = 2
    /\ pc = "select"
    /\ ~prompted
    /\ state_file # <<>>
    /\ state_file[1].hash = FileHash(config_file)
    /\ state_file[1].requested >= 1
    /\ requested = state_file[1].requested

\* C9: every batch of the plan is a non-empty station list, for every filtered
\* station list and batch size >= 1, and an empty station list gives an empty
\* plan.
C9_BatchesNonEmpty ==
    pc = "planned" =>
        /\ \A i \in 1..Len(batches) : batches[i] # <<>>
        /\ (stations = <<>> => batches = <<>>)

\* C10: split_into_batches(S, b) has floor(len(S)/b) + 1 groups, the first m of
\* size k + 1 and the others of size k, (k, m) = divmod(len(S), n), and no
\* group has more than b + 1 stations.
C10_GroupSizes ==
    pc = "planned" =>
        LET n == Len(station_groups)
            k == Len(stations) \div n
            m == Len(stations) % n
        IN  /\ n = Len(stations) \div config_file.batch_size + 1
            /\ \A i \in 1..n :
                   /\ Len(station_groups[i]) = IF i <= m THEN k + 1 ELSE k
                   /\ Len(station_groups[i]) <= config_file.batch_size + 1

\* 3 stations at batch size 2: a group of 2, then a group of 1
C10_Witness ==
    /\ pc = "planned"
    /\ config_file.batch_size = 2
    /\ Len(stations) = 3
    /\ Len(station_groups) = 2
    /\ Len(station_groups[1]) = 2
    /\ Len(station_groups[2]) = 1

\* C11: the plan of select_stations has n_partitions * |data_format| batches,
\* batches and batch_data_formats have the same length, and position i (from
\* 0) holds station group i mod n_partitions with format i div n_partitions;
\* 120 stations at batch size 50 with two formats give 3 groups of 40 and 6
\* batches.
C11_PlanLayout ==
    /\ pc = "planned" =>
          LET np == Len(station_groups)
              nf == Len(config_file.data_format)
          IN  /\ Len(batches) = np * nf
              /\ Len(batch_data_formats) = Len(batches)
              /\ n_batches = Len(batches)
              /\ \A i \in 0..(Len(batches) - 1) :
                     /\ batches[i + 1] = station_groups[(i % np) + 1]
                     /\ batch_data_formats[i + 1] =
                            config_file.data_format[(i \div np) + 1]
    /\ LET p == plan([i \in 1..120 |-> i], 50, <<data_types[1], data_types[2]>>)
       IN  /\ Len(p.station_groups) = 3
           /\ \A g \in 1..3 : Len(p.station_groups[g]) = 40
           /\ Len(p.batches) = 6
           /\ Len(p.batch_data_formats) = 6

\* two formats over three different groups: six batches
C11_Witness ==
    /\ pc = "planned"
    /\ Len(config_file.data_format) = 2
    /\ Len(station_groups) = 3
    /\ station_groups[1] # station_groups[2]
    /\ Len(batches) = 6
    /\ batch_data_formats[3] # batch_data_formats[4]

\* the device flags of a station that are set, in the order H, L, N
PresentDevices(sta) == SelectSeq(devices, LAMBDA d : sta[d])

\* the number of stations the expansion puts in the place of station sta
ExpandedCount(sta) ==
    IF number_of_device_types(sta) > 1 THEN number_of_device_types(sta) ELSE 1

\* the number of stations the expansion puts in the place of the first n of raw
RECURSIVE ExpandedBefore(_, _)
ExpandedBefore(raw, n) ==
    IF n = 0 THEN 0 ELSE ExpandedBefore(raw, n - 1) + ExpandedCount(raw[n])

\* C12: expand_hybrid_stations puts in the place of each station with j > 1
\* device flags exactly j stations, in the order H, L, N, each with exactly one
\* device flag and the Z, E, N flags of that device true and all other device
\* and component flags false; a station with at most one flag passes
\* unchanged.  So no station of the result has two device flags, and a station
\* with all three flags gives three.
C12_ExpandHybrid ==
    pc = "expanded" =>
        /\ Len(stations) = ExpandedBefore(catalog, Len(catalog))
        /\ \A i \in 1..Len(catalog) :
              LET sta == catalog[i]
                  o == ExpandedBefore(catalog, i - 1)
                  present == PresentDevices(sta)
              IN  IF Len(present) <= 1
                  THEN stations[o + 1] = sta
                  ELSE \A r \in 1..Len(present) :
                         LET out == stations[o + r]
                         IN  /\ \A d \in 1..3 :
                                   /\ out[devices[d]] = (devices[d] = present[r])
                                   /\ \A k \in ComponentKeys(devices[d]) :
                                          out[k] = (devices[d] = present[r])
                             /\ out.network = sta.network
                             /\ out.code = sta.code
                             /\ out.latitude = sta.latitude
                             /\ out.longitude = sta.longitude
        /\ \A o \in 1..Len(stations) : number_of_device_types(stations[o]) <= 1

\* a station with all three device flags, only its Z components flagged, after
\* a station with two: five stations in the result
C12_Witness ==
    /\ pc = "expanded"
    /\ Len(catalog) = 2
    /\ number_of_device_types(catalog[1]) = 2
    /\ number_of_device_types(catalog[2]) = 3
    /\ ~catalog[2].deviceHE
    /\ Len(stations) = 5
    /\ stations[3].deviceH /\ stations[3].deviceHE
    /\ stations[4].deviceL /\ ~stations[4].deviceHZ
    /\ stations[5].deviceN

\* one of the four filters of a selection, by its name
FilterBy(kind, sta, sel) ==
    CASE kind = "circle" -> circle_filtered(sta, sel)
      [] kind = "rectangle" -> rectangle_filtered(sta, sel)
      [] kind = "name" -> name_filtered(sta, sel)
      [] kind = "device_type" -> device_type_filtered(sta, sel)

\* the filters named in order applied one after the other
RECURSIVE FilterInOrder(_, _, _)
FilterInOrder(order, sta, sel) ==
    IF order = <<>> THEN sta
    ELSE FilterInOrder(Tail(order), FilterBy(Head(order), sta, sel), sel)

\* the 24 orders of the four filters
FilterOrders ==
    LET kinds == <<"circle", "rectangle", "name", "device_type">>
    IN  { [i \in 1..4 |-> kinds[o[i]]] : o \in Permutations(1..4) }

\* C13: the circle, rectangle, name and device_type filters applied one after
\* the other give the station list that is the intersection of the four
\* results of filtering the full list by each alone: the stations of the
\* device_type result, as often as they are there, that are in the three other
\* results too; and every order of the four filters gives the same list.
C13_FiltersIntersect ==
    pc = "filtered" =>
        LET alone(kind) == FilterBy(kind, catalog, selection)
        IN  /\ stations = SelectSeq(alone("device_type"),
                              LAMBDA s : /\ s \in Range(alone("circle"))
                                         /\ s \in Range(alone("rectangle"))
                                         /\ s \in Range(alone("name")))
            /\ Range(stations) = Range(alone("circle"))
                                  \cap Range(alone("rectangle"))
                                  \cap Range(alone("name"))
                                  \cap Range(alone("device_type"))
            /\ \A o \in FilterOrders :
                   FilterInOrder(o, catalog, selection) = stations

\* all four filters are given, each of the first three drops a station the
\* device filter keeps, and one station passes all four
C13_Witness ==
    /\ pc = "filtered"
    /\ selection.circle # <<>>
    /\ selection.rectangle # <<>>
    /\ selection.name # <<>>
    /\ selection.device_type = <<"L">>
    /\ Len(catalog) = 2
    /\ Len(stations) = 1
    /\ Len(device_type_filtered(catalog, selection)) = 2
    /\ Len(circle_filtered(catalog, selection)) = 2
    /\ Len(name_filtered(catalog, selection)) = 1

\* C14: request_data raises TDVMSException when the Result is 111, when the
\* Result is another code that is not the success, and when the connection
\* fails; it returns normally, as a success, only when the response carries
\* the success result.
C14_RaisesUnlessSuccess ==
    (attempts > 0 /\ pc \in {"returned", "sleep"}) =>
        LET success == /\ last_outcome.exc = ""
                       /\ last_outcome.status_code = 200
                       /\ last_outcome.Result = ResultAccepted
        IN  /\ (last_outcome.exc = "ConnectionError" => pc = "sleep")
            /\ (/\ last_outcome.exc = ""
                /\ last_outcome.status_code = 200
                /\ last_outcome.Result \in {ResultBusy, ResultGeneralError})
                    => pc = "sleep"
            /\ (last_outcome.exc = "" /\ last_outcome.status_code # 200)
                    => pc = "sleep"
            /\ (pc = "returned" => success)

\* C15: constructing a DownloadConfig fails whenever batch_size is not a
\* positive integer (zero, negative, or not an integer), so that no plan is
\* partitioned with a batch size <= 0.
C15_BatchSizePositive ==
    pc = "constructed" =>
        (~(kwargs.batch_size.type = "int" /\ kwargs.batch_size.value >= 1)
            => config.error # <<>>)

\* the items of the selection argument, none if it is no mapping
SelItems == IF kwargs.selection.type = "dict" THEN kwargs.selection.value ELSE <<>>

\* the sub-fields of keys a circle or rectangle selection sel_type lacks
MissingKeys(sel_type, keys) ==
    { k \in Range(keys) :
        \E i \in 1..Len(SelItems) : /\ SelItems[i][1] = sel_type
                                     /\ SelItems[i][2].type = "dict"
                                     /\ k \notin DOMAIN SelItems[i][2].value }

\* the selection is no mapping
NotMapping == kwargs.selection.type # "dict"

\* the selection has a key that is none of the four
UnknownKey ==
    \E i \in 1..Len(SelItems) :
        SelItems[i][1] \notin {"circle", "rectangle", "name", "device_type"}

\* a circle or rectangle selection lacks a sub-field
MissingSubfield ==
    MissingKeys("circle", CircleKeys) \cup MissingKeys("rectangle", RectangleKeys)
        # {}

\* a data format that is none of mseed, fseed, inventory is asked for
BadFormat ==
    \/ kwargs.data_format.type \notin {"str", "list"}
    \/ \E i \in 1..Len(kwargs.data_format.value) :
          kwargs.data_format.value[i] \notin Range(data_types)

\* the value of a circle or rectangle selection is no mapping
ArgsNotMapping ==
    \E i \in 1..Len(SelItems) : /\ SelItems[i][1] \in {"circle", "rectangle"}
                                 /\ SelItems[i][2].type # "dict"

\* a name or device_type selection is no list or an empty one
NotNonEmptyList ==
    \E i \in 1..Len(SelItems) : /\ SelItems[i][1] \in {"name", "device_type"}
                                 /\ \/ SelItems[i][2].type # "list"
                                    \/ SelItems[i][2].value = <<>>

\* the device types asked for
DeviceTypesAsked ==
    UNION { Range(SelItems[i][2].value) :
              i \in { j \in 1..Len(SelItems) : /\ SelItems[j][1] = "device_type"
                                               /\ SelItems[j][2].type = "list" } }

\* a device type is asked for that is a letter other than H, L, N
OtherDeviceLetter == DeviceTypesAsked \ SubstringsOfHLN # {}

\* starttime or endtime is no datetime
BadTimes == kwargs.starttime # "datetime" \/ kwargs.endtime # "datetime"

\* an error that names a missing sub-field names one the selection lacks
NamesMissingField ==
    /\ (config.error # <<>> /\ config.error[1] = "Circle selection needs argument")
          => config.error[2] \in MissingKeys("circle", CircleKeys)
    /\ (config.error # <<>> /\ config.error[1] = "Rectangle selection needs argument")
          => config.error[2] \in MissingKeys("rectangle", RectangleKeys)

\* C16 as stated: constructing a DownloadConfig fails when the selection is no
\* mapping, has a key outside circle, rectangle, name, device_type, lacks a
\* sub-field of a circle or rectangle (the error names it), or when a data
\* format is none of mseed, fseed, inventory; otherwise it succeeds.
C16_ConstructionFailsExactly ==
    pc = "constructed" =>
        /\ config.error # <<>>
              <=> (NotMapping \/ UnknownKey \/ MissingSubfield \/ BadFormat)
        /\ NamesMissingField

\* C16 amended: construction fails also when a circle or rectangle selection
\* is no mapping, when a name or device_type selection is no non-empty list,
\* when a device type is a letter other than H, L, N, when starttime or
\* endtime is no datetime and when batch_size is no integer; with none of
\* these, device types among H, L, N and a batch size >= 1 it succeeds.
C16_ConstructionFails ==
    pc = "constructed" =>
        LET defect == \/ NotMapping \/ UnknownKey \/ MissingSubfield \/ BadFormat
                      \/ ArgsNotMapping \/ NotNonEmptyList \/ OtherDeviceLetter
                      \/ BadTimes \/ kwargs.batch_size.type # "int"
        IN  /\ defect => config.error # <<>>
            /\ (/\ ~defect
                /\ DeviceTypesAsked \subseteq {"H", "L", "N"}
                /\ kwargs.batch_size.value >= 1) => config.error = <<>>
            /\ NamesMissingField

\* an empty list of names, everything else good: the construction fails
C16_Witness ==
    /\ pc = "constructed"
    /\ kwargs.selection = Dict(<< <<"name", List(<<>>)>> >>)
    /\ ~BadTimes
    /\ ~BadFormat
    /\ kwargs.batch_size = [type |-> "int", value |-> 1]
    /\ config.error = <<"Name selection should be a list of names">>

\* C17: select_stations fails, with an error that names the code, when a
\* network of the config is not in the network catalog; otherwise the plan is
\* built from the stations of the networks of the config only: every station
\* of every batch has a network that is in the networks list of the config.
C17_RequestedNetworksOnly ==
    /\ (pc \in Running /\ config.error = <<>> /\ writes >= 1) =>
          /\ Range(config.networks) \subseteq Range(RemoteNetworks)
          /\ \A b \in 1..Len(batches) : \A i \in 1..Len(batches[b]) :
                 CatalogStation(batches[b][i]).network \in Range(config.networks)
    /\ (error # <<>> /\ error[1] = "Invalid network") =>
          /\ pc = "failed"
          /\ writes = 0
          /\ error[2] \in Range(config.networks) \ Range(RemoteNetworks)

\* C18: request_data derives one device code for each station of a batch, H
\* before L before N; when a station of the batch has none of the three flags
\* it raises an error that is not retried, before any request is sent: the
\* run ends, requested is not advanced and the checkpoint is not rewritten.
C18_NoDeviceIsFatal ==
    [][ /\ (/\ pc = "request"
            /\ \E i \in 1..Len(batches[requested + 1]) :
                  number_of_device_types(
                      CatalogStation(batches[requested + 1][i])) = 0
            /\ pc' # "killed") =>
               /\ pc' = "failed"
               /\ requested' = requested
               /\ state_file' = state_file
               /\ attempts' = attempts
               /\ accepted' = accepted
               /\ last_outcome' = last_outcome
        /\ (pc = "failed" => (runs' = runs + 1 \/ UNCHANGED vars))
        /\ \A h, l, n \in BOOLEAN :
              LET code == device_code(Station("TK", 1, 0, 0, h, l, n, TRUE))
              IN  /\ (h => code = "H")
                  /\ (~h /\ l => code = "L")
                  /\ (~h /\ ~l /\ n => code = "N")
                  /\ (~h /\ ~l /\ ~n => code = "") ]_vars

\* the second batch of a run has the station without device flag: the run
\* ended there, after one accepted request, with the checkpoint at 1
C18_Witness ==
    /\ pc = "failed"
    /\ error = <<"Device type couldn't be figured out">>
    /\ requested = 1
    /\ attempts = 1
    /\ accepted = <<0>>
    /\ batches[2] = <<0>>
    /\ state_file = update_state(1, FileHash(config_file))

\* the errors of a run that come with a submission or after one
LoopErrors == {"Device type couldn't be figured out", "EmailParseException"}

\* C19: every fatal error (of the config, of a catalog fetch, of the data of a
\* batch) ends the run and leaves the checkpoint file as it was last written;
\* an error of the config or of the catalog comes before any submission and
\* before any checkpoint write of the run.
C19_FatalKeepsCheckpoint ==
    [][ /\ (pc' = "failed" /\ pc # "failed") =>
               /\ error' # <<>>
               /\ state_file' = state_file
               /\ error'[1] \notin LoopErrors =>
                     /\ writes' = 0
                     /\ attempts' = 0
                     /\ accepted' = <<>>
        /\ (pc # "failed" /\ pc' # "failed") => error' = <<>>
        /\ (pc = "failed" => (runs' = runs + 1 \/ UNCHANGED vars)) ]_vars

\* a second run fails to fetch the stations: the checkpoint of the first run,
\* which counts one batch, is still there
C19_Witness ==
    /\ pc = "failed"
    /\ runs = 2
    /\ error = <<"Fetching stations failed with status code">>
    /\ writes = 0
    /\ attempts = 0
    /\ state_file # <<>>
    /\ state_file[1].requested >= 1

\* C20: a run finishes normally exactly when requested = total_batches: at
\* every point of the run 0 <= requested <= total_batches, every batch index
\* submitted is in [0, total_batches), and when the loop exits requested is
\* total_batches.
C20_DoneAtTotal ==
    (pc \in (Running \ {"select"}) \cup {"done"}) =>
        /\ 0 <= requested
        /\ requested <= n_batches
        /\ (attempts > 0 => (0 <= last_batch /\ last_batch < n_batches))
        /\ (pc = "done" <=> (pc \notin Running /\ requested = n_batches))


\* C21 as stated: with no bound on the retries, the remote service accepting
\* each submission in the end and every confirmation given, every run that
\* comes to the request loop reaches requested = total_batches and ends there.
C21_EveryRunCompletes ==
    (pc = "loop") ~> (pc = "done" /\ requested = n_batches)

\* C21: a retryable error never ends a run and never moves requested: after
\* its sleep the run is back at the loop test, however many submissions there
\* were.  With the remote service accepting each submission in the end and
\* every confirmation given, every run that comes to the request loop ends:
\* on a fatal error, or by leaving the loop with requested >= total_batches,
\* which is requested = total_batches when the loaded count was at most
\* total_batches.
C21_RetriesUntilEnd ==
    /\ [][pc = "sleep" => (pc' = "loop" /\ requested' = requested)]_vars
    /\ [](pc = "failed" => error # <<>>)
    /\ [](pc = "done" => /\ requested >= n_batches
                         /\ (requested0 <= n_batches => requested = n_batches))
    /\ ((pc = "loop") ~> (pc \in {"done", "failed"}))

\* a run that made MaxAttempts submissions or more, one of them refused at
\* least, has requested every batch of a plan of two
C21_Witness ==
    /\ pc = "done"
    /\ attempts = MaxAttempts
    /\ n_batches = 2
    /\ requested = n_batches
    /\ requested0 = 0
    /\ accepted = <<0, 1>>


\* C22: one interrupt delivered during a sleep of the run (here the backoff
\* after a retryable error) is absorbed: the run goes on and the checkpoint
\* file is as it was; nothing short of the process being killed ends a run
\* in its sleep.
C22_InterruptAbsorbed ==
    [][pc = "sleep" => /\ pc' \in Running \cup {"killed"}
                       /\ state_file' = state_file]_vars


\* C23: at every point of a run past its first checkpoint write, the count in
\* the checkpoint file is the number of batch positions the remote service has
\* accepted or one less (the batch in flight), and the positions accepted in
\* the run are the consecutive ones from the loaded count on: were the process
\* to stop here, the next run on the same config would submit at most one
\* batch again and leave no position out.
C23_CrashLosesInFlight ==
    (pc \in Running \ {"select"}) =>
        /\ state_file # <<>>
        /\ state_file[1].hash = FileHash(config_file)
        /\ state_file[1].requested \in
               {requested0 + Len(accepted), requested0 + Len(accepted) - 1}
        /\ \A i \in 1..Len(accepted) : accepted[i] = requested0 + i - 1


\* C24: in a run without IMAP every call of config.download, the first for a
\* batch and each one after a retryable error, comes right after one return
\* of the input() of the loop, which is entered from the loop test only; in a
\* run with IMAP the loop never waits at input() and goes from its test to the
\* call by itself.
C24_ConfirmBeforeEachAttempt ==
    [][ /\ pc' = "request" => pc = (IF use_imap_email THEN "loop" ELSE "confirm")
        /\ pc' = "confirm" => (pc = "loop" /\ ~use_imap_email)
        /\ pc = "confirm" => pc' \in {"request", "killed"}
        /\ attempts' = attempts + 1 => pc = "request"
        /\ use_imap_email' => pc' # "confirm" ]_vars

\* a run without IMAP is about to submit batch 0 a second time: it was
\* refused, slept, and the user has confirmed again
C24_Witness ==
    /\ pc = "request"
    /\ ~use_imap_email
    /\ attempts = 1
    /\ requested = 0
    /\ last_batch = 0
    /\ last_outcome.Result = ResultBusy
    /\ slept = RetrySleepSeconds


\* C25: check_imap_email is called only when the remote service has accepted
\* the batch just submitted and the checkpoint file holds the count that
\* includes it; an exception inside check_imap_email ends the run with
\* requested and the checkpoint file as they were at the call.
C25_HarvestAfterPersist ==
    /\ [](pc = "check_email" =>
             /\ Accepted(last_outcome)
             /\ last_batch = requested - 1
             /\ accepted # <<>>
             /\ accepted[Len(accepted)] = last_batch
             /\ state_file = update_state(requested, FileHash(config_file)))
    /\ [][(pc = "check_email" /\ pc' = "failed") =>
             /\ requested' = requested
             /\ state_file' = state_file]_vars


\* C26: filtered by device type alone, the station list is the list of the
\* stations that have one at least of the flags asked for, in their order and
\* each as often as it was in the list given.
C26_DeviceFilterOnce ==
    (/\ pc = "filtered"
     /\ selection.circle = <<>>
     /\ selection.rectangle = <<>>
     /\ selection.name = <<>>
     /\ selection.device_type # <<>>) =>
        stations = SelectSeq(catalog,
                             LAMBDA s : \E c \in Range(selection.device_type) :
                                           s[DeviceKey[c]])


\* C27: a DownloadConfig that was constructed with a device_type selection
\* holds a list of which every entry is one of the letters H, L, N, the codes
\* filter_stations_by_device_type has a device flag for.
C27_DeviceTypesSingleLetters ==
    (/\ pc = "constructed"
     /\ config.error = <<>>
     /\ config.device_type_selection # <<>>) =>
        Range(config.device_type_selection) \subseteq DOMAIN DeviceKey


\* the polls of the call so far that found no message
EmptyPolls == { i \in 1..Len(polls) : polls[i] = 0 }

\* C28: a call of check_imap_email always comes to its end.  n_checks is the
\* argument less the number of empty polls and never goes up; only the last
\* poll can have found messages, so the loop stops at the first poll that
\* finds one; when the loop is left with no poll having found any, exactly
\* n_checks polls were made.  Nothing is downloaded before the loop is left,
\* and the files downloaded are those of the links whose file was not there,
\* each once.
C28_PollingEnds ==
    /\ <>(pc \in {"returned", "raised"})
    /\ [](n_checks = kwargs.n_checks - Cardinality(EmptyPolls))
    /\ [][n_checks' <= n_checks]_vars
    /\ [](\A i \in 1..Len(polls) : polls[i] > 0 => i = Len(polls))
    /\ []((pc \in {"wait", "grace"}) => EmptyPolls = 1..Len(polls))
    /\ []((pc \in {"downloads", "returned"}) =>
             \/ polls # <<>> /\ polls[Len(polls)] > 0
             \/ EmptyPolls = 1..Len(polls) /\ Len(polls) = kwargs.n_checks)
    /\ [](pc # "returned" => downloaded = <<>>)
    /\ [][pc' = "returned" =>
             /\ Range(downloaded') =
                   { filename(download_links[i]) : i \in 1..Len(download_links) } \ files
             /\ Cardinality(Range(downloaded')) = Len(downloaded')
             /\ files' = files \cup Range(downloaded')]_vars

\* the second poll found two messages, linking to zip files 1 and 2, of which
\* file 1 was there already: file 2 alone was downloaded
C28_Witness ==
    /\ pc = "returned"
    /\ kwargs.n_checks = MaxChecks
    /\ polls = <<0, 2>>
    /\ n_checks = MaxChecks - 1
    /\ Len(download_links) = 2
    /\ downloaded = <<2>>
    /\ files = {1, 2}

====
